---- MODULE Spec2Model ----
(***************************************************************************)
(* A model of data_cleaner.py: the pandas table operations the script      *)
(* calls (read_csv, dropna, fillna, mean, drop_duplicates, sort_values,    *)
(* to_csv), the four cleaning functions built on them, and the pipeline    *)
(* of main().                                                               *)
(*                                                                         *)
(* A DataFrame is a record                                                 *)
(*    [columns : sequence of column names,                                 *)
(*     dtypes  : column name -> "int64" | "float64" | "object",            *)
(*     rows    : sequence of [idx : index label, cells : column -> Cell]]  *)
(* Every pandas operation used by the script keeps the index labels of     *)
(* the rows it keeps, so a label identifies a row of the input table.      *)
(*                                                                         *)
(* Two specifications:                                                     *)
(*    Spec      calls of the functions on tables read from bounded CSV     *)
(*              files, with every argument value the signature allows;     *)
(*    MainSpec  the pipeline of main(), step by step.                      *)
(***************************************************************************)
EXTENDS Integers, Sequences, FiniteSets, TLC

\* Largest number of data lines of a CSV file the functions are called on.
MaxRows == 3
\* Largest number of data lines of a pre-existing input file of main().
MaxFileRows == 2

VARIABLES
    copy_on_write,  \* pandas' mode.copy_on_write of the installed pandas
    input_file,     \* content of sample_data.csv (NoFile: does not exist)
    output_file,    \* content of cleaned_data.csv
    pc,             \* position of main()
    steps,          \* the pipeline steps main() has executed, in order
    strategy,       \* the strategy argument of main()'s Step 3
    sort_column,    \* main()'s sort_column setting
    df,             \* the loaded table / the argument of a function call
    df_cleaned,     \* main()'s df_cleaned
    call,           \* the last function call: name and arguments
    ret,            \* the table the last call returned
    exc             \* the exception raised ("none": returned normally)

vars == <<copy_on_write, input_file, output_file, pc, steps, strategy,
          sort_column, df, df_cleaned, call, ret, exc>>

----------------------------------------------------------------------------
(* Cells *)

NaN == [k |-> "nan", s |-> "", n |-> 0, d |-> 1]
Str(s) == [k |-> "str", s |-> s, n |-> 0, d |-> 1]

RECURSIVE GCD(_, _)
GCD(a, b) == IF b = 0 THEN a ELSE GCD(b, a % b)

Abs(x) == IF x < 0 THEN -x ELSE x

\* The number n/d (d > 0), in lowest terms, so that equal numbers are equal cells.
Frac(n, d) ==
    LET g == GCD(Abs(n), d)
    IN  [k |-> "num", s |-> "", n |-> n \div g, d |-> d \div g]

Num(n) == Frac(n, 1)

IsNull(c) == c.k = "nan"

Range(s) == {s[i] : i \in 1..Len(s)}

\* Python's order of the strings that occur (code point order).
StrOrder ==
    <<"Alice", "Berlin", "Bob", "David", "Eve", "Frank", "London", "New York",
      "Paris", "Tokyo", "Unknown">>

StrRank(s) == CHOOSE i \in 1..Len(StrOrder) : StrOrder[i] = s

\* a < b for two non-missing cells of one column (a column read by read_csv
\* holds numbers or strings, never both).
KeyLess(a, b) ==
    IF a.k = "num" /\ b.k = "num" THEN a.n * b.d < b.n * a.d
    ELSE IF a.k = "str" /\ b.k = "str" THEN StrRank(a.s) < StrRank(b.s)
    ELSE FALSE

----------------------------------------------------------------------------
(* Files and tables *)

NoFile == [exists |-> FALSE, header |-> <<>>, lines |-> <<>>]
NoTable == [columns |-> <<>>, dtypes |-> <<>>, rows |-> <<>>]
NoCall == [fn |-> "none", strategy |-> "", column_name |-> "", ascending |-> TRUE]

ColPos(columns, c) == CHOOSE j \in 1..Len(columns) : columns[j] = c

Column(T, c) == [i \in 1..Len(T.rows) |-> T.rows[i].cells[c]]

\* read_csv's type inference for one column.
InferDtype(vals) ==
    IF Len(vals) = 0 THEN "object"
    ELSE IF \E i \in 1..Len(vals) : vals[i].k = "str" THEN "object"
    ELSE IF \E i \in 1..Len(vals) : IsNull(vals[i]) \/ vals[i].d # 1 THEN "float64"
    ELSE "int64"

\* pd.read_csv(filepath): header row, a fresh RangeIndex, empty field = NaN.
read_csv(f) ==
    LET rows == [i \in 1..Len(f.lines) |->
                    [idx |-> i - 1,
                     cells |-> [c \in Range(f.header) |->
                                   f.lines[i][ColPos(f.header, c)]]]]
    IN  [columns |-> f.header,
         dtypes |-> [c \in Range(f.header) |->
                        InferDtype([i \in 1..Len(rows) |-> rows[i].cells[c]])],
         rows |-> rows]

\* df.to_csv(path, index=False): the index labels and dtypes are not written.
to_csv(T) ==
    [exists |-> TRUE,
     header |-> T.columns,
     lines |-> [i \in 1..Len(T.rows) |->
                   [j \in 1..Len(T.columns) |-> T.rows[i].cells[T.columns[j]]]]]

----------------------------------------------------------------------------
(* pandas operations *)

RECURSIVE TakeRows(_, _, _)
\* The rows at the positions in keep, from position i on, in their order.
TakeRows(rows, keep, i) ==
    IF i > Len(rows) THEN <<>>
    ELSE (IF i \in keep THEN <<rows[i]>> ELSE <<>>) \o TakeRows(rows, keep, i + 1)

RowHasNull(T, r) == \E c \in Range(T.columns) : IsNull(r.cells[c])
RowAllNull(T, r) == \A c \in Range(T.columns) : IsNull(r.cells[c])

\* df.dropna() with how='all': a row is dropped only when all its cells are missing.
dropna_all(T) ==
    [T EXCEPT !.rows =
        TakeRows(T.rows, {i \in 1..Len(T.rows) : ~RowAllNull(T, T.rows[i])}, 1)]

\* df.dropna(): axis=0, how='any'. Labels and dtypes of the kept rows are kept.
dropna(T) ==
    [T EXCEPT !.rows =
        TakeRows(T.rows, {i \in 1..Len(T.rows) : ~RowHasNull(T, T.rows[i])}, 1)]

\* df.select_dtypes(include=[...]).columns
select_dtypes(T, include) ==
    SelectSeq(T.columns, LAMBDA c : T.dtypes[c] \in include)

NumberDtypes == {"int64", "float64"}
ObjectDtypes == {"object"}

\* cleaned_df[col].isnull().any()
AnyNull(T, c) == \E i \in 1..Len(T.rows) : IsNull(T.rows[i].cells[c])

RECURSIVE SumFrom(_, _)
\* The sum of the non-missing cells of vals from position i on.
SumFrom(vals, i) ==
    IF i > Len(vals) THEN Num(0)
    ELSE LET rest == SumFrom(vals, i + 1)
             v == vals[i]
         IN  IF IsNull(v) THEN rest
             ELSE Frac(v.n * rest.d + rest.n * v.d, v.d * rest.d)

\* cleaned_df[col].mean(): skipna=True; NaN when no cell is present.
mean(T, c) ==
    LET vals == Column(T, c)
        count == Cardinality({i \in 1..Len(vals) : ~IsNull(vals[i])})
        total == SumFrom(vals, 1)
    IN  IF count = 0 THEN NaN ELSE Frac(total.n, total.d * count)

\* cleaned_df[col].fillna(value, inplace=True): fillna on the Series that
\* cleaned_df[col] returns. Without copy-on-write that Series shares the
\* frame's data and the frame is updated; with copy-on-write (the only mode of
\* pandas 3) the Series behaves as a copy and the frame is left as it was.
\* Filling with NaN changes nothing.
fillna_inplace(T, c, value, cow) ==
    IF cow THEN T
    ELSE [T EXCEPT !.rows =
            [i \in 1..Len(T.rows) |->
                IF IsNull(T.rows[i].cells[c])
                THEN [T.rows[i] EXCEPT !.cells[c] = value]
                ELSE T.rows[i]]]

SameCells(r1, r2) == r1.cells = r2.cells

\* df.drop_duplicates(keep='last')
drop_duplicates_last(T) ==
    [T EXCEPT !.rows =
        TakeRows(T.rows,
                 {i \in 1..Len(T.rows) :
                     \A j \in (i + 1)..Len(T.rows) : ~SameCells(T.rows[j], T.rows[i])},
                 1)]

\* A removal loop that stops after the first duplicate it removes.
drop_duplicates_once(T) ==
    LET dup == {i \in 1..Len(T.rows) :
                   \E j \in 1..(i - 1) : SameCells(T.rows[j], T.rows[i])}
        first == IF dup = {} THEN {} ELSE {CHOOSE i \in dup : \A j \in dup : i <= j}
    IN  [T EXCEPT !.rows = TakeRows(T.rows, (1..Len(T.rows)) \ first, 1)]

\* df.drop_duplicates(): subset=None (all columns), keep='first'; two rows are
\* duplicates when all their cells are equal, NaN being equal to NaN.
drop_duplicates(T) ==
    [T EXCEPT !.rows =
        TakeRows(T.rows,
                 {i \in 1..Len(T.rows) :
                     \A j \in 1..(i - 1) : ~SameCells(T.rows[j], T.rows[i])},
                 1)]

\* The positions of S whose key comes first: the least key when ascending, the
\* greatest when descending.
FirstKeys(keys, S, ascending) ==
    {i \in S : \A j \in S : IF ascending THEN ~KeyLess(keys[j], keys[i])
                                          ELSE ~KeyLess(keys[i], keys[j])}

RECURSIVE ArgSorts(_, _, _, _)
\* numpy argsort of the positions S in the given direction, as pandas' nargsort
\* calls it: every arrangement in key order that the algorithm `kind` can
\* return. "quicksort" (numpy's introsort; pandas' default) promises no order
\* among equal keys; "stable" keeps equal keys in their input order.
ArgSorts(keys, S, ascending, kind) ==
    IF S = {} THEN {<<>>}
    ELSE LET first == FirstKeys(keys, S, ascending)
             heads == IF kind = "stable"
                      THEN {CHOOSE i \in first : \A j \in first : i <= j}
                      ELSE first
         IN  UNION {{<<i>> \o rest : rest \in ArgSorts(keys, S \ {i}, ascending, kind)} :
                       i \in heads}

RECURSIVE Ascending(_, _)
\* The positions of S in increasing order.
Ascending(S, i) ==
    IF S = {} THEN <<>>
    ELSE IF i \in S THEN <<i>> \o Ascending(S \ {i}, i + 1)
    ELSE Ascending(S, i + 1)

\* nargsort with the missing keys first in a descending sort: the descending
\* order taken as the ascending order reversed.
nargsort_reversed(keys, ascending, kind) ==
    LET n == Len(keys)
        nan_idx == Ascending({i \in 1..n : IsNull(keys[i])}, 1)
        present == {i \in 1..n : ~IsNull(keys[i])}
    IN  {IF ascending THEN indexer \o nan_idx ELSE nan_idx \o indexer :
            indexer \in ArgSorts(keys, present, ascending, kind)}

\* pandas.core.sorting.nargsort with na_position='last': the present keys are
\* argsorted in the requested direction, then the positions of the missing
\* keys are appended in their input order, whatever the direction.
nargsort(keys, ascending, kind) ==
    LET n == Len(keys)
        nan_idx == Ascending({i \in 1..n : IsNull(keys[i])}, 1)
        present == {i \in 1..n : ~IsNull(keys[i])}
    IN  {indexer \o nan_idx : indexer \in ArgSorts(keys, present, ascending, kind)}

\* df.sort_values(by=by, ascending=ascending, kind=kind): the tables it can return.
sort_values(T, by, ascending, kind) ==
    {[T EXCEPT !.rows = [p \in 1..Len(indexer) |-> T.rows[indexer[p]]]] :
        indexer \in nargsort(Column(T, by), ascending, kind)}

----------------------------------------------------------------------------
(* The functions of data_cleaner.py. Each yields the outcome of a call:      *)
(* exc = "none" and the table returned, or the exception raised.             *)

Returned(T) == [exc |-> "none", df |-> T]
Raised(e) == [exc |-> e, df |-> NoTable]

\* load_data(filepath)
load_data(f) == read_csv(f)

RECURSIVE FillNumeric(_, _, _, _)
\* The loop over numeric_cols from position i on: a column with a missing cell
\* is filled with its mean.
FillNumeric(T, cols, i, cow) ==
    IF i > Len(cols) THEN T
    ELSE LET col == cols[i]
         IN  FillNumeric(IF AnyNull(T, col)
                         THEN fillna_inplace(T, col, mean(T, col), cow)
                         ELSE T,
                         cols, i + 1, cow)

RECURSIVE FillText(_, _, _, _)
\* The loop over text_cols from position i on: a column with a missing cell is
\* filled with 'Unknown'.
FillText(T, cols, i, cow) ==
    IF i > Len(cols) THEN T
    ELSE LET col == cols[i]
         IN  FillText(IF AnyNull(T, col)
                      THEN fillna_inplace(T, col, Str("Unknown"), cow)
                      ELSE T,
                      cols, i + 1, cow)

\* clean_missing_values(df, strategy). With a strategy that is neither "drop"
\* nor "fill" no branch assigns cleaned_df, and `return cleaned_df` raises
\* UnboundLocalError.
clean_missing_values(T, strat, cow) ==
    IF strat = "drop" THEN Returned(dropna(T))
    ELSE IF strat = "fill" THEN
        LET numeric_filled == FillNumeric(T, select_dtypes(T, NumberDtypes), 1, cow)
        IN  Returned(FillText(numeric_filled,
                              select_dtypes(numeric_filled, ObjectDtypes), 1, cow))
    ELSE Raised("UnboundLocalError")

\* remove_duplicates(df)
remove_duplicates(T) == Returned(drop_duplicates(T))

\* sort_data without the guard of its first lines: sort_values raises KeyError
\* for a name that is no column.
sort_data_unguarded(T, column_name, ascending) ==
    IF column_name \notin Range(T.columns) THEN {Raised("KeyError")}
    ELSE {Returned(S) : S \in sort_values(T, column_name, ascending, "quicksort")}

\* sort_data(df, column_name, ascending): the outcomes a call can have.
\* sort_values is called without kind, that is with kind='quicksort'.
sort_data(T, column_name, ascending) ==
    IF column_name \notin Range(T.columns) THEN {Returned(T)}
    ELSE {Returned(S) : S \in sort_values(T, column_name, ascending, "quicksort")}

\* save_data(df, output_filepath): the file it writes.
save_data(T) == to_csv(T)

----------------------------------------------------------------------------
(* Inputs *)

NameFields == {Str("Alice"), Str("Bob"), NaN}
AgeFields == {Num(25), Num(30), NaN}

\* The CSV files with header name,age and at most n data lines.
CsvFiles(n) ==
    {[exists |-> TRUE, header |-> <<"name", "age">>, lines |-> l] :
        l \in UNION {[1..m -> {<<a, b>> : a \in NameFields, b \in AgeFields}] : m \in 0..n}}

Strategies == {"drop", "fill", "average"}
ColumnNames == {"name", "age", "height"}

\* pd.DataFrame(sample_data) of main(): None is a missing cell.
sample_data ==
    LET line(name, age, city, salary) ==
            [name |-> name, age |-> age, city |-> city, salary |-> salary]
        data == <<line(Str("Alice"), Num(25), Str("New York"), Num(50000)),
                  line(Str("Bob"), Num(30), Str("Paris"), Num(60000)),
                  line(NaN, Num(35), Str("London"), Num(75000)),
                  line(Str("David"), NaN, Str("Tokyo"), Num(80000)),
                  line(Str("Eve"), Num(28), NaN, Num(55000)),
                  line(Str("Bob"), Num(30), Str("Paris"), Num(60000)),
                  line(Str("Frank"), Num(45), Str("Berlin"), NaN)>>
    IN  [columns |-> <<"name", "age", "city", "salary">>,
         dtypes |-> [name |-> "object", age |-> "float64", city |-> "object",
                     salary |-> "float64"],
         rows |-> [i \in 1..Len(data) |-> [idx |-> i - 1, cells |-> data[i]]]]

----------------------------------------------------------------------------
(* Spec: a table is loaded and one of the functions is called on it *)

Init ==
    /\ copy_on_write \in BOOLEAN
    /\ input_file = NoFile
    /\ \E f \in CsvFiles(MaxRows) : df = load_data(f)
    /\ output_file = NoFile
    /\ pc = "call"
    /\ steps = <<>>
    /\ strategy = ""
    /\ sort_column = ""
    /\ df_cleaned = NoTable
    /\ call = NoCall
    /\ ret = NoTable
    /\ exc = "none"

CallFrame == <<copy_on_write, input_file, output_file, pc, steps, strategy,
               sort_column, df, df_cleaned>>

\* ret = clean_missing_values(df, strategy=s)
CallCleanMissingValues ==
    /\ call = NoCall
    /\ \E s \in Strategies :
        LET o == clean_missing_values(df, s, copy_on_write)
        IN  /\ call' = [NoCall EXCEPT !.fn = "clean_missing_values", !.strategy = s]
            /\ ret' = o.df
            /\ exc' = o.exc
            /\ UNCHANGED CallFrame

\* ret = remove_duplicates(df)
CallRemoveDuplicates ==
    /\ call = NoCall
    /\ LET o == remove_duplicates(df)
       IN  /\ call' = [NoCall EXCEPT !.fn = "remove_duplicates"]
           /\ ret' = o.df
           /\ exc' = o.exc
           /\ UNCHANGED CallFrame

\* ret = sort_data(df, c, ascending=a)
CallSortData ==
    /\ call = NoCall
    /\ \E c \in ColumnNames, a \in BOOLEAN :
        \E o \in sort_data(df, c, a) :
            /\ call' = [NoCall EXCEPT !.fn = "sort_data", !.column_name = c,
                                      !.ascending = a]
            /\ ret' = o.df
            /\ exc' = o.exc
            /\ UNCHANGED CallFrame

Next ==
    \/ CallCleanMissingValues
    \/ CallRemoveDuplicates
    \/ CallSortData

Spec == Init /\ [][Next]_vars

----------------------------------------------------------------------------
(* MainSpec: the pipeline of main() *)

\* main() with Step 5 before Step 4.
PipelineOrderSortFirst ==
    <<"load_data", "display_initial", "clean_missing_values", "sort_data",
      "remove_duplicates", "display_final", "save_data">>

\* The steps of main() in program order.
PipelineOrder ==
    <<"load_data", "display_initial", "clean_missing_values", "remove_duplicates",
      "sort_data", "display_final", "save_data">>

\* The step after step s ("done" after the last).
StepAfter(s) ==
    LET i == CHOOSE j \in 1..Len(PipelineOrder) : PipelineOrder[j] = s
    IN  IF i = Len(PipelineOrder) THEN "done" ELSE PipelineOrder[i + 1]

MainInit ==
    /\ copy_on_write \in BOOLEAN
    /\ input_file \in {NoFile} \cup CsvFiles(MaxFileRows)
    /\ output_file = NoFile
    /\ pc = "start"
    /\ steps = <<>>
    /\ strategy \in Strategies
    /\ sort_column \in ColumnNames
    /\ df = NoTable
    /\ df_cleaned = NoTable
    /\ call = NoCall
    /\ ret = NoTable
    /\ exc = "none"

MainFrame == <<copy_on_write, strategy, sort_column, call, ret>>

\* A step of the pipeline is entered: it is recorded and pc moves past it.
Enter(s) ==
    /\ pc = s
    /\ steps' = Append(steps, s)

\* The sample file is created when the input file does not exist.
CreateSample ==
    /\ pc = "start"
    /\ pc' = PipelineOrder[1]
    /\ input_file' = IF input_file.exists THEN input_file ELSE to_csv(sample_data)
    /\ UNCHANGED <<output_file, steps, df, df_cleaned, exc>>
    /\ UNCHANGED MainFrame

\* Step 1: df = load_data(input_file)
LoadData ==
    /\ Enter("load_data")
    /\ df' = load_data(input_file)
    /\ pc' = StepAfter("load_data")
    /\ UNCHANGED <<input_file, output_file, df_cleaned, exc>>
    /\ UNCHANGED MainFrame

\* Step 2: display_data_info(df, "Initial") prints and changes nothing.
DisplayInitial ==
    /\ Enter("display_initial")
    /\ pc' = StepAfter("display_initial")
    /\ UNCHANGED <<input_file, output_file, df, df_cleaned, exc>>
    /\ UNCHANGED MainFrame

\* Step 3: df_cleaned = clean_missing_values(df, strategy=...). An exception
\* is not caught and ends main().
CleanMissingValues ==
    /\ Enter("clean_missing_values")
    /\ LET o == clean_missing_values(df, strategy, copy_on_write)
       IN  IF o.exc = "none"
           THEN /\ df_cleaned' = o.df
                /\ pc' = StepAfter("clean_missing_values")
                /\ exc' = exc
           ELSE /\ df_cleaned' = df_cleaned
                /\ pc' = "raised"
                /\ exc' = o.exc
    /\ UNCHANGED <<input_file, output_file, df>>
    /\ UNCHANGED MainFrame

\* Step 4: df_cleaned = remove_duplicates(df_cleaned)
RemoveDuplicates ==
    /\ Enter("remove_duplicates")
    /\ df_cleaned' = remove_duplicates(df_cleaned).df
    /\ pc' = StepAfter("remove_duplicates")
    /\ UNCHANGED <<input_file, output_file, df, exc>>
    /\ UNCHANGED MainFrame

\* Step 5: if sort_column in df_cleaned.columns:
\*             df_cleaned = sort_data(df_cleaned, sort_column, ascending=True)
SortData ==
    /\ Enter("sort_data")
    /\ IF sort_column \in Range(df_cleaned.columns)
       THEN \E o \in sort_data(df_cleaned, sort_column, TRUE) : df_cleaned' = o.df
       ELSE df_cleaned' = df_cleaned
    /\ pc' = StepAfter("sort_data")
    /\ UNCHANGED <<input_file, output_file, df, exc>>
    /\ UNCHANGED MainFrame

\* Step 6: display_data_info(df_cleaned, "Final")
DisplayFinal ==
    /\ Enter("display_final")
    /\ pc' = StepAfter("display_final")
    /\ UNCHANGED <<input_file, output_file, df, df_cleaned, exc>>
    /\ UNCHANGED MainFrame

\* Step 7: save_data(df_cleaned, output_file)
SaveData ==
    /\ Enter("save_data")
    /\ output_file' = save_data(df_cleaned)
    /\ pc' = StepAfter("save_data")
    /\ UNCHANGED <<input_file, df, df_cleaned, exc>>
    /\ UNCHANGED MainFrame

MainNext ==
    \/ CreateSample
    \/ LoadData
    \/ DisplayInitial
    \/ CleanMissingValues
    \/ RemoveDuplicates
    \/ SortData
    \/ DisplayFinal
    \/ SaveData

MainSpec == MainInit /\ [][MainNext]_vars

----------------------------------------------------------------------------
(* Properties *)

Labels(T) == {T.rows[i].idx : i \in 1..Len(T.rows)}

\* The position in T of the row labelled l.
PosOf(T, l) == CHOOSE i \in 1..Len(T.rows) : T.rows[i].idx = l

\* The rows of R are rows of T (same label, same cells), each at most once,
\* in the relative order they have in T.
SubTableInOrder(R, T) ==
    /\ R.columns = T.columns
    /\ \A i \in 1..Len(R.rows) : \E j \in 1..Len(T.rows) : T.rows[j] = R.rows[i]
    /\ \A i, j \in 1..Len(R.rows) :
          i < j => PosOf(T, R.rows[i].idx) < PosOf(T, R.rows[j].idx)

\* R holds exactly the rows of T, each once, in some order.
Permutation(R, T) ==
    /\ R.columns = T.columns
    /\ Len(R.rows) = Len(T.rows)
    /\ \A j \in 1..Len(T.rows) : \E i \in 1..Len(R.rows) : R.rows[i] = T.rows[j]

CalledClean(s) == call.fn = "clean_missing_values" /\ call.strategy = s
CalledDedupe == call.fn = "remove_duplicates"
CalledSort == call.fn = "sort_data"
CalledSortPresent == CalledSort /\ call.column_name \in Range(df.columns)
CalledSortAbsent == CalledSort /\ call.column_name \notin Range(df.columns)

\* C1: clean_missing_values(T, "drop") returns normally; no row of the result
\* has a missing cell; the result's rows are exactly the rows of T without a
\* missing cell, unchanged and in T's relative order.
C1_DropKeepsCompleteRows ==
    CalledClean("drop") =>
        /\ exc = "none"
        /\ \A i \in 1..Len(ret.rows) : ~RowHasNull(ret, ret.rows[i])
        /\ SubTableInOrder(ret, df)
        /\ \A j \in 1..Len(df.rows) :
              ~RowHasNull(df, df.rows[j]) => df.rows[j].idx \in Labels(ret)

\* C1 witness: a drop that removed a row from between two rows it kept.
C1_Witness ==
    /\ CalledClean("drop")
    /\ Len(df.rows) = 3
    /\ RowHasNull(df, df.rows[2])
    /\ Len(ret.rows) = 2

\* A numeric column of T with at least one cell and every cell missing.
AllMissingNumeric(T, c) ==
    /\ T.dtypes[c] \in NumberDtypes
    /\ Len(T.rows) > 0
    /\ \A i \in 1..Len(T.rows) : IsNull(T.rows[i].cells[c])

\* The result R of a fill of T: T's shape, labels and present cells, every
\* missing cell of a numeric column replaced by that column's mean in T, and
\* every missing cell of a text column by 'Unknown'.
Filled(R, T) ==
    /\ R.columns = T.columns
    /\ Len(R.rows) = Len(T.rows)
    /\ \A i \in 1..Len(T.rows) :
          /\ R.rows[i].idx = T.rows[i].idx
          /\ \A c \in Range(T.columns) :
                LET old == T.rows[i].cells[c]
                    new == R.rows[i].cells[c]
                IN  /\ ~IsNull(new)
                    /\ ~IsNull(old) => new = old
                    /\ IsNull(old) =>
                          new = IF T.dtypes[c] \in NumberDtypes
                                THEN mean(T, c) ELSE Str("Unknown")

\* C2: for a table T without an all-missing numeric column,
\* clean_missing_values(T, "fill") returns a table of T's shape with no missing
\* cell: present cells unchanged, missing numeric cells replaced by the
\* column mean, missing text cells by 'Unknown'.
C2_FillFillsEveryMissingCell ==
    (/\ CalledClean("fill")
     /\ \A c \in Range(df.columns) : ~AllMissingNumeric(df, c))
        => (exc = "none" /\ Filled(ret, df))

\* The same statement for a pandas without copy-on-write, where the chained
\* in-place fillna reaches the frame.
FillWithoutCopyOnWrite ==
    (/\ CalledClean("fill")
     /\ ~copy_on_write
     /\ \A c \in Range(df.columns) : ~AllMissingNumeric(df, c))
        => (exc = "none" /\ Filled(ret, df))

\* C3: with a strategy other than "drop" and "fill", clean_missing_values
\* fails with an InvalidStrategyError, and main() runs no later step and
\* writes no output file.
C3_InvalidStrategyError ==
    (strategy \notin {"drop", "fill"} /\ pc \notin {"start", "load_data",
        "display_initial", "clean_missing_values"})
        => /\ exc = "InvalidStrategyError"
           /\ pc = "raised"
           /\ steps = <<"load_data", "display_initial", "clean_missing_values">>
           /\ output_file = NoFile

\* What the code does hold to with such a strategy: the call raises (an
\* UnboundLocalError), main() stops there and writes no output file.
InvalidStrategyStopsMain ==
    (strategy \notin {"drop", "fill"} /\ pc \notin {"start", "load_data",
        "display_initial", "clean_missing_values"})
        => /\ exc = "UnboundLocalError"
           /\ pc = "raised"
           /\ steps = <<"load_data", "display_initial", "clean_missing_values">>
           /\ output_file = NoFile

\* C4: sort_data(T, c, ascending) with c not a column of T raises nothing and
\* returns T itself: same columns, same rows, same row order.
C4_SortAbsentColumnIsNoOp ==
    CalledSortAbsent => (exc = "none" /\ ret = df)

\* C4 witness: a descending sort by "height" of a table with two or more rows.
C4_Witness ==
    /\ CalledSortAbsent
    /\ ~call.ascending
    /\ Len(df.rows) >= 2

Key(T, i) == T.rows[i].cells[call.column_name]

\* The arrangements of the positions 1..n.
Arrangements(n) ==
    {p \in [1..n -> 1..n] : \A i, j \in 1..n : p[i] = p[j] => i = j}

\* C5: sort_data(T, c, ascending) with c a column of T returns a permutation of
\* T's rows ordered by c in the requested direction, and two rows with equal
\* values in c keep the relative order they have in T. Rows are compared by
\* their cells: the result reads as T's rows taken in an order p that follows
\* the keys and that, among equal keys, follows T.
C5_SortIsStable ==
    CalledSortPresent =>
        /\ exc = "none"
        /\ Permutation(ret, df)
        /\ \E p \in Arrangements(Len(df.rows)) :
              /\ \A i \in 1..Len(ret.rows) : ret.rows[i].cells = df.rows[p[i]].cells
              /\ \A i, j \in 1..Len(ret.rows) :
                    i < j =>
                      /\ (~IsNull(Key(ret, i)) /\ ~IsNull(Key(ret, j))) =>
                            IF call.ascending
                            THEN ~KeyLess(Key(ret, j), Key(ret, i))
                            ELSE ~KeyLess(Key(ret, i), Key(ret, j))
                      /\ Key(ret, i) = Key(ret, j) => p[i] < p[j]

\* What the code does hold to: a permutation of T's rows whose present keys
\* are in the requested order; the order among equal keys is left open.
SortIsOrderedPermutation ==
    CalledSortPresent =>
        /\ exc = "none"
        /\ Permutation(ret, df)
        /\ \A i, j \in 1..Len(ret.rows) :
              (i < j /\ ~IsNull(Key(ret, i)) /\ ~IsNull(Key(ret, j))) =>
                  IF call.ascending THEN ~KeyLess(Key(ret, j), Key(ret, i))
                                    ELSE ~KeyLess(Key(ret, i), Key(ret, j))

\* C6: in the result of sort_data(T, c, ascending) with c a column of T, every
\* row whose value in c is missing comes after every row whose value in c is
\* present, for ascending True and for ascending False.
C6_MissingKeysLast ==
    CalledSortPresent =>
        /\ exc = "none"
        /\ Permutation(ret, df)
        /\ \A i, j \in 1..Len(ret.rows) :
              (IsNull(Key(ret, i)) /\ ~IsNull(Key(ret, j))) => j < i

\* C6 witness: a descending sort of a table whose first key is missing and
\* that has a present key.
C6_Witness ==
    /\ CalledSortPresent
    /\ ~call.ascending
    /\ Len(df.rows) >= 2
    /\ IsNull(Key(df, 1))
    /\ \E j \in 1..Len(df.rows) : ~IsNull(Key(df, j))

\* C7: remove_duplicates(T) returns normally; of every class of rows of T with
\* equal cells (NaN equal to NaN) it keeps exactly the first row in T's order,
\* and the kept rows are in T's relative order. Removing nothing is no error.
C7_DedupeKeepsFirstOccurrence ==
    CalledDedupe =>
        /\ exc = "none"
        /\ SubTableInOrder(ret, df)
        /\ \A j \in 1..Len(df.rows) :
              df.rows[j].idx \in Labels(ret)
                 <=> (\A k \in 1..(j - 1) : df.rows[k].cells # df.rows[j].cells)

\* C7 witness: the third row repeats the first, both with a missing cell, the
\* second differs, and the third was removed.
C7_Witness ==
    /\ CalledDedupe
    /\ Len(df.rows) = 3
    /\ df.rows[1].cells = df.rows[3].cells
    /\ df.rows[1].cells # df.rows[2].cells
    /\ RowHasNull(df, df.rows[1])
    /\ Len(ret.rows) = 2

\* C8: remove_duplicates is idempotent: applied to its own result it returns
\* the same rows in the same order.
C8_DedupeIdempotent ==
    CalledDedupe => remove_duplicates(ret) = Returned(ret)

\* C8 witness: a table of three equal rows was reduced to one row.
C8_Witness ==
    /\ CalledDedupe
    /\ Len(df.rows) = 3
    /\ \A i \in 1..3 : df.rows[i].cells = df.rows[1].cells
    /\ Len(ret.rows) = 1

\* C9: clean_missing_values(T, "fill") on a table with an all-missing numeric
\* column signals a ComputationError instead of returning a table.
C9_AllMissingNumericRaises ==
    (CalledClean("fill") /\ \E c \in Range(df.columns) : AllMissingNumeric(df, c))
        => exc = "ComputationError"

\* C10: main() executes load, display, clean, remove duplicates, sort, display,
\* save in this order, the loaded table being the input file's and the saved
\* file being df_cleaned's final value; on the 7-row sample with strategy
\* "drop" and sort column "age" the saved file has exactly the rows of Alice
\* (age 25) and Bob (age 30), in this order.
C10_PipelineOrderAndSampleResult ==
    /\ \E n \in 0..7 :
          steps = SubSeq(<<"load_data", "display_initial", "clean_missing_values",
                           "remove_duplicates", "sort_data", "display_final",
                           "save_data">>, 1, n)
    /\ pc = "done" => (Len(steps) = 7 /\ df = load_data(input_file)
                       /\ output_file = to_csv(df_cleaned))
    /\ (pc = "done" /\ input_file = to_csv(sample_data) /\ strategy = "drop"
        /\ sort_column = "age") =>
          /\ output_file.header = <<"name", "age", "city", "salary">>
          /\ output_file.lines =
                <<<<Str("Alice"), Num(25), Str("New York"), Num(50000)>>,
                  <<Str("Bob"), Num(30), Str("Paris"), Num(60000)>>>>

\* C10 witness: main() ran to its end on the sample with "drop" and "age".
C10_Witness ==
    /\ pc = "done"
    /\ input_file = to_csv(sample_data)
    /\ strategy = "drop"
    /\ sort_column = "age"
    /\ Len(output_file.lines) = 2

====
